---- MODULE Spec2Model ----
(***************************************************************************)
(* Yoga-AI-coaching, React client.                                         *)
(*                                                                         *)
(* Spec       : the shared axios instance of services/apiService.js (JWT   *)
(*              request interceptor, 401/refresh response interceptor) and *)
(*              logout.                                                    *)
(* SpecRoutes : the routes of App.jsx, with one request.                   *)
(* SpecHome   : the analysis of a frame by the Home page, with the server  *)
(*              answering its requests.                                    *)
(* SpecFn     : the pure functions of the analysis, applied to inputs      *)
(*              drawn from sample sets.                                    *)
(* SpecAuth   : the Login and Register pages and their submissions.        *)
(* SpecWebcam : the WebcamCapture component and the MediaPipe service.     *)
(* SpecLive   : Spec with every response and refresh answer handled.       *)
(***************************************************************************)
EXTENDS Integers, Sequences, FiniteSets, TLC

VARIABLES
    access_token,   \* localStorage['access_token']
    refresh_token,  \* localStorage['refresh_token']
    reqs,           \* the requests made through the shared api instance
    requested,      \* the URL last asked of the router
    location,       \* the URL after the router's redirects
    page,           \* the page component rendered
    renderAuth,     \* apiService.isAuthenticated() as read by the last render
    home,           \* state of the Home component and of its analysis in progress
    server,         \* what the server has computed for the analysis request in flight
    fnIn,           \* the inputs of the last function applied
    fnOut,          \* its outputs
    form,           \* state of the Login or Register page and of its submission
    webcam          \* state of the WebcamCapture component and of the MediaPipe service

\* the variables of the analysis, left alone by the api instance and the router
analysisVars == <<home, server, fnIn, fnOut, form, webcam>>

vars == <<access_token, refresh_token, reqs, requested, location, page, renderAuth,
          analysisVars>>

-----------------------------------------------------------------------------
(* Bounds of the model.                                                    *)

\* number of requests that can be in flight through api at the same time
MaxReqs == 2

-----------------------------------------------------------------------------
(* localStorage and tokens.                                                *)

\* localStorage.getItem of a key that is not stored (null)
NoToken == "none"

\* null, for an object; a field that is null or undefined is left out of
\* its record
Null == << >>

\* access tokens the server can issue
AccessTokens == {"a1", "a2"}

\* refresh tokens the server can issue
RefreshTokens == {"r1"}

\* HTTP statuses the server answers a request with
Statuses == {200, 401, 500}

\* apiService.isAuthenticated: !!localStorage.getItem('access_token')
isAuthenticated == access_token # NoToken

-----------------------------------------------------------------------------
(* The shared axios instance.                                              *)

ReqIds == 1..MaxReqs

\* callers of the api instance that are modelled: a plain call (getProfile,
\* getCurrentUser, ...) and ApiService.logout
Kinds == {"get", "logout"}

IdleReq ==
    [st |-> "idle", kind |-> "get", url |-> "none", body |-> Null,
     auth |-> NoToken, retry |-> FALSE,
     sends |-> 0, refreshes |-> 0, resp |-> 0,
     newTok |-> NoToken, result |-> "pending", err |-> "none",
     caller |-> "pending"]

\* request interceptor that never sets the header
RequestInterceptor_noHeader(stored, hdr) == hdr

\* request interceptor: the Authorization header of a request whose config
\* carries header hdr, sent while localStorage holds stored
RequestInterceptor(stored, hdr) ==
    IF stored # NoToken THEN stored ELSE hdr

\* the URL a modelled caller asks for: getCurrentUser, logout
UrlOf(kind) == IF kind = "logout" THEN "/auth/logout" ELSE "/auth/me"

\* API_BASE_URL, when REACT_APP_API_URL is not set
API_BASE_URL == "http://localhost:8000/api"

\* the HTTP method of a modelled request: api.get for getCurrentUser,
\* api.post for the others
MethodOf(kind) == IF kind = "get" THEN "GET" ELSE "POST"

\* where a request of the api instance goes: method, baseURL and url
Endpoint(req) ==
    [method |-> MethodOf(req.kind), baseURL |-> API_BASE_URL, url |-> req.url]

\* the main endpoint as documented: POST http://localhost:8000/api/analyze-complete
DocumentedEndpoint ==
    [method |-> "POST", baseURL |-> "http://localhost:8000/api",
     url |-> "/analyze-complete"]

\* a request handed to the api instance: it goes through the request
\* interceptor and is sent
Request(kind, url, body) ==
    [IdleReq EXCEPT !.st = "sent", !.kind = kind, !.url = url, !.body = body,
                    !.auth = RequestInterceptor(access_token, NoToken),
                    !.sends = 1]

\* api.get / api.post called by an ApiService method
Call(r, kind) ==
    /\ reqs[r].st = "idle"
    /\ reqs' = [reqs EXCEPT ![r] = Request(kind, UrlOf(kind), Null)]
    /\ UNCHANGED <<access_token, refresh_token, requested, location, page, renderAuth, analysisVars>>

\* HandleResponse without originalRequest._retry = true
HandleResponse_noRetryFlag(r, status) ==
    /\ reqs[r].st = "sent"
    /\ IF status = 200
       THEN reqs' = [reqs EXCEPT ![r].st = "settled", ![r].resp = status,
                                 ![r].result = "fulfilled"]
       ELSE IF status = 401 /\ ~reqs[r].retry
            THEN IF refresh_token # NoToken
                 THEN reqs' = [reqs EXCEPT ![r].st = "refreshing",
                                           ![r].resp = status,
                                           ![r].refreshes = reqs[r].refreshes + 1]
                 ELSE reqs' = [reqs EXCEPT ![r].st = "settled",
                                           ![r].resp = status,
                                           ![r].result = "rejected",
                                           ![r].err = "401"]
            ELSE reqs' = [reqs EXCEPT ![r].st = "settled",
                                      ![r].resp = status,
                                      ![r].result = "rejected",
                                      ![r].err = IF status = 401 THEN "401" ELSE "500"]
    /\ UNCHANGED <<access_token, refresh_token, requested, location, page, renderAuth, analysisVars>>

\* response interceptor, run when the server answers the request in flight
\* with status; up to the await of the refresh call
HandleResponse(r, status) ==
    /\ reqs[r].st = "sent"
    /\ IF status = 200
       THEN reqs' = [reqs EXCEPT ![r].st = "settled", ![r].resp = status,
                                 ![r].result = "fulfilled"]
       ELSE IF status = 401 /\ ~reqs[r].retry
            THEN IF refresh_token # NoToken
                 THEN reqs' = [reqs EXCEPT ![r].st = "refreshing",
                                           ![r].resp = status,
                                           ![r].retry = TRUE,
                                           ![r].refreshes = reqs[r].refreshes + 1]
                 ELSE reqs' = [reqs EXCEPT ![r].st = "settled",
                                           ![r].resp = status,
                                           ![r].retry = TRUE,
                                           ![r].result = "rejected",
                                           ![r].err = "401"]
            ELSE reqs' = [reqs EXCEPT ![r].st = "settled",
                                      ![r].resp = status,
                                      ![r].result = "rejected",
                                      ![r].err = IF status = 401 THEN "401" ELSE "500"]
    /\ UNCHANGED <<access_token, refresh_token, requested, location, page, renderAuth, analysisVars>>

\* HandleRefresh without localStorage.setItem('access_token', access_token)
HandleRefresh_noStore(r, answer) ==
    /\ reqs[r].st = "refreshing"
    /\ IF answer # "fail"
       THEN /\ reqs' = [reqs EXCEPT ![r].st = "sent",
                                    ![r].newTok = answer,
                                    ![r].auth = RequestInterceptor(access_token, answer),
                                    ![r].sends = reqs[r].sends + 1]
            /\ UNCHANGED <<access_token, refresh_token, requested, location, page, renderAuth, analysisVars>>
       ELSE /\ access_token' = NoToken
            /\ refresh_token' = NoToken
            /\ requested' = "/login"
            /\ location' = "/login"
            /\ page' = "Login"
            /\ reqs' = [reqs EXCEPT ![r].st = "settled",
                                    ![r].result = "rejected",
                                    ![r].err = "refresh"]
            /\ UNCHANGED <<renderAuth, analysisVars>>

\* HandleRefresh whose catch leaves the tokens in localStorage
HandleRefresh_keepTokens(r, answer) ==
    /\ reqs[r].st = "refreshing"
    /\ IF answer # "fail"
       THEN \* setItem, set the header, api(originalRequest): request interceptor again
            /\ access_token' = answer
            /\ reqs' = [reqs EXCEPT ![r].st = "sent",
                                    ![r].newTok = answer,
                                    ![r].auth = RequestInterceptor(access_token', answer),
                                    ![r].sends = reqs[r].sends + 1]
            /\ UNCHANGED <<refresh_token, requested, location, page, renderAuth, analysisVars>>
       ELSE \* catch (refreshError); window.location.href = '/login'
            /\ UNCHANGED <<access_token, refresh_token>>
            /\ requested' = "/login"
            /\ location' = "/login"
            /\ page' = "Login"
            /\ reqs' = [reqs EXCEPT ![r].st = "settled",
                                    ![r].result = "rejected",
                                    ![r].err = "refresh"]
            /\ UNCHANGED <<renderAuth, analysisVars>>

\* response interceptor, after the await of the refresh call: the server has
\* answered POST /auth/refresh (sent with plain axios, outside api) with a new
\* access token, or the call has failed
HandleRefresh(r, answer) ==
    /\ reqs[r].st = "refreshing"
    /\ IF answer # "fail"
       THEN \* setItem, set the header, api(originalRequest): request interceptor again
            /\ access_token' = answer
            /\ reqs' = [reqs EXCEPT ![r].st = "sent",
                                    ![r].newTok = answer,
                                    ![r].auth = RequestInterceptor(access_token', answer),
                                    ![r].sends = reqs[r].sends + 1]
            /\ UNCHANGED <<refresh_token, requested, location, page, renderAuth, analysisVars>>
       ELSE \* catch (refreshError); window.location.href = '/login'
            /\ access_token' = NoToken
            /\ refresh_token' = NoToken
            /\ requested' = "/login"
            /\ location' = "/login"
            /\ page' = "Login"
            /\ reqs' = [reqs EXCEPT ![r].st = "settled",
                                    ![r].result = "rejected",
                                    ![r].err = "refresh"]
            /\ UNCHANGED <<renderAuth, analysisVars>>

\* a plain ApiService method: return response.data, or log and rethrow; its
\* caller receives the outcome of the api call and the request is over
Return(r) ==
    /\ reqs[r].st = "settled"
    /\ reqs[r].kind = "get"
    /\ reqs' = [reqs EXCEPT ![r] = IdleReq]
    /\ UNCHANGED <<access_token, refresh_token, requested, location, page, renderAuth, analysisVars>>

\* logout with the removals at the end of the try block and no catch
LogoutFinally_onlyOnSuccess(r) ==
    /\ reqs[r].st = "settled"
    /\ reqs[r].kind = "logout"
    /\ IF reqs[r].result = "fulfilled"
       THEN /\ access_token' = NoToken
            /\ refresh_token' = NoToken
       ELSE UNCHANGED <<access_token, refresh_token>>
    /\ reqs' = [reqs EXCEPT ![r].st = "returned", ![r].caller = reqs[r].result]
    /\ UNCHANGED <<requested, location, page, renderAuth, analysisVars>>

\* ApiService.logout after its await: catch logs, finally removes the tokens
LogoutFinally(r) ==
    /\ reqs[r].st = "settled"
    /\ reqs[r].kind = "logout"
    /\ access_token' = NoToken
    /\ refresh_token' = NoToken
    /\ reqs' = [reqs EXCEPT ![r].st = "returned", ![r].caller = "fulfilled"]
    /\ UNCHANGED <<requested, location, page, renderAuth, analysisVars>>

-----------------------------------------------------------------------------
(* Pose quality analysis on the server (backend/yoga_quality_analyzer.py,  *)
(* not part of the sources: written from the specification).  Scores are   *)
(* in hundredths of a point (10000 is 100.0), coordinates in 1/10000 of    *)
(* the normalized unit, confidences in percent.                            *)

\* the score 100
FullScore == 10000

\* the five supported postures
Poses == {"downdog", "plank", "tree", "warrior2", "goddess"}

\* landmarks per frame
NumLandmarks == 33

\* gating threshold on the classification confidence (0.70)
GateThreshold == 70

\* the IndicatorSet declared by each posture's analyzer, in declaration order
IndicatorNames(pose) ==
    CASE pose = "plank" -> <<"alignment", "core_strength", "symmetry", "shoulder_position">>
      [] pose = "downdog" -> <<"alignment", "arm_position", "leg_straightness", "symmetry">>
      [] pose = "tree" -> <<"balance", "foot_height", "hip_opening">>
      [] pose = "warrior2" -> <<"arm_alignment", "front_knee_angle", "knee_alignment", "hip_opening">>
      [] pose = "goddess" -> <<"hip_opening", "knee_flexion", "knee_alignment",
                               "back_straightness", "symmetry">>

\* scale k of the linear rescaling 100 - k * deviation
DeviationScale == 300

\* clamp into [0,100]
Clamp(v) == IF v < 0 THEN 0 ELSE IF v > FullScore THEN FullScore ELSE v

\* Geometry Kernel scoring shape: 100 - k * deviation, clamped
DeviationScore(dev) == Clamp(FullScore - (DeviationScale * dev) \div 100)

Max(a, b) == IF a >= b THEN a ELSE b
Min(a, b) == IF a <= b THEN a ELSE b

RECURSIVE MaxOf(_, _, _), MinOf(_, _, _)
\* the largest / smallest coordinate c of the points i..Len(pts)
MaxOf(pts, c, i) ==
    IF i = Len(pts) THEN pts[i][c] ELSE Max(pts[i][c], MaxOf(pts, c, i + 1))
MinOf(pts, c, i) ==
    IF i = Len(pts) THEN pts[i][c] ELSE Min(pts[i][c], MinOf(pts, c, i + 1))

\* the largest pairwise deviation of the points along the coordinate c
Deviation(pts, c) == MaxOf(pts, c, 1) - MinOf(pts, c, 1)

\* horizontalAlignment: the largest pairwise y deviation, rescaled
horizontalAlignment(pts) == DeviationScore(Deviation(pts, "y"))

\* verticalAlignment: the same along x
verticalAlignment(pts) == DeviationScore(Deviation(pts, "x"))

\* landmarks an indicator is computed from
PointsPerIndicator == 6

\* the landmarks the k-th indicator of a posture is computed from
Points(landmarks, k) ==
    SubSeq(landmarks, PointsPerIndicator * (k - 1) + 1, PointsPerIndicator * k)

\* the k-th indicator of a posture: a kernel score of its landmarks
Indicator(pose, landmarks, k) ==
    [name |-> IndicatorNames(pose)[k],
     score |-> IF k % 2 = 1
               THEN horizontalAlignment(Points(landmarks, k))
               ELSE verticalAlignment(Points(landmarks, k))]

RECURSIVE AnalyzerFrom(_, _, _)
\* the indicators k.. of a posture, in declaration order
AnalyzerFrom(pose, landmarks, k) ==
    IF k > Len(IndicatorNames(pose)) THEN << >>
    ELSE <<Indicator(pose, landmarks, k)>> \o AnalyzerFrom(pose, landmarks, k + 1)

\* a Posture Analyzer: the IndicatorSet of the posture for the landmarks
Analyzer(pose, landmarks) == AnalyzerFrom(pose, landmarks, 1)

RECURSIVE SumScores(_, _)
\* the sum of the scores of the indicators i..Len(ind)
SumScores(ind, i) ==
    IF i > Len(ind) THEN 0 ELSE ind[i].score + SumScores(ind, i + 1)

\* a / b rounded to the nearest integer, halves up (a >= 0, b > 0)
RoundDiv(a, b) == (2 * a + b) \div (2 * b)

\* Aggregator, global score: the mean of the indicators rounded to one decimal
calculate_global_score(ind) == 10 * RoundDiv(SumScores(ind, 1), 10 * Len(ind))

RECURSIVE LowestFrom(_, _, _)
\* the index of the lowest score among i..Len(ind), best being the lowest of
\* the indexes before i; an equal score does not replace an earlier one
LowestFrom(ind, i, best) ==
    IF i > Len(ind) THEN best
    ELSE LowestFrom(ind, i + 1, IF ind[i].score < ind[best].score THEN i ELSE best)

\* LowestFrom where an equal score replaces an earlier one
RECURSIVE LowestFrom_lastWins(_, _, _)
LowestFrom_lastWins(ind, i, best) ==
    IF i > Len(ind) THEN best
    ELSE LowestFrom_lastWins(ind, i + 1, IF ind[i].score <= ind[best].score THEN i ELSE best)

\* cutoffs of the improvement_needed bands (90.0, 70.0)
SlightCutoff == 9000
ModerateCutoff == 7000

improvement_needed(score) ==
    IF score >= SlightCutoff THEN "leger"
    ELSE IF score >= ModerateCutoff THEN "modere" ELSE "important"

\* identify_priority_indicator taking the last of the lowest scores
identify_priority_indicator_lastWins(ind) ==
    [name |-> ind[LowestFrom_lastWins(ind, 2, 1)].name,
     score |-> ind[LowestFrom_lastWins(ind, 2, 1)].score,
     improvement_needed |-> improvement_needed(ind[LowestFrom_lastWins(ind, 2, 1)].score)]

\* Aggregator, priority indicator: the lowest score, the first declared on a tie
identify_priority_indicator(ind) ==
    [name |-> ind[LowestFrom(ind, 2, 1)].name,
     score |-> ind[LowestFrom(ind, 2, 1)].score,
     improvement_needed |-> improvement_needed(ind[LowestFrom(ind, 2, 1)].score)]

\* lower edges of the skill bands (50.0, 70.0, 85.0)
IntermediateFrom == 5000
AdvancedFrom == 7000
ExpertFrom == 8500

\* determine_skill_level with the two middle bands exchanged
determine_skill_level_swapped(global) ==
    IF global >= ExpertFrom THEN "expert"
    ELSE IF global >= AdvancedFrom THEN "intermediate"
    ELSE IF global >= IntermediateFrom THEN "advanced" ELSE "beginner"

\* Aggregator, skill level: ordered bands of the global score
determine_skill_level(global) ==
    IF global >= ExpertFrom THEN "expert"
    ELSE IF global >= AdvancedFrom THEN "advanced"
    ELSE IF global >= IntermediateFrom THEN "intermediate" ELSE "beginner"

\* band edges of the feedback messages (85.0, 70.0, 60.0)
ExcellentFrom == 8500
GoodFrom == 7000
WarningBelow == 6000

\* the feedback of an indicator set: zero or one message per indicator, named
\* here by its severity
RECURSIVE FeedbackFrom(_, _)
FeedbackFrom(ind, i) ==
    IF i > Len(ind) THEN <<>>
    ELSE (IF ind[i].score >= ExcellentFrom THEN <<"excellent">>
          ELSE IF ind[i].score >= GoodFrom THEN <<"good">>
          ELSE IF ind[i].score < WarningBelow THEN <<"warning">> ELSE <<>>)
         \o FeedbackFrom(ind, i + 1)

\* Aggregator and Quality Report Builder: the full report of an indicator set
FullReport(pose, ind) ==
    [pose |-> pose,
     indicators |-> ind,
     feedback |-> FeedbackFrom(ind, 1),
     global_score |-> calculate_global_score(ind),
     skill_level |-> determine_skill_level(calculate_global_score(ind)),
     priority_indicator |-> identify_priority_indicator(ind)]

\* the report marked unavailable: no indicators, no global score
UnavailableReport(pose) == [pose |-> pose, available |-> FALSE]

\* the four fields of a Landmark
LandmarkFields == {"x", "y", "z", "visibility"}

\* input shape: exactly 33 landmarks, each with its four fields
ShapeOk(landmarks) ==
    /\ Len(landmarks) = NumLandmarks
    /\ \A i \in 1..Len(landmarks) : DOMAIN landmarks[i] = LandmarkFields

\* Quality Report Builder: a hard failure on a wrong shape or an unknown
\* posture, the unavailable report under the gating threshold, else the full
\* report
analyzeQuality(landmarks, poseName, confidence) ==
    IF ~ShapeOk(landmarks) THEN [failure |-> "shape"]
    ELSE IF poseName \notin Poses THEN [failure |-> "pose"]
    ELSE IF confidence < GateThreshold
         THEN [failure |-> "none", report |-> UnavailableReport(poseName)]
         ELSE [failure |-> "none", report |-> FullReport(poseName, Analyzer(poseName, landmarks))]

\* the response documented for POST /api/analyze-complete
DocResponse ==
    [success |-> TRUE,
     classification |-> [pose |-> "plank", confidence |-> 94],
     quality_analysis |->
        [indicators |-> << [name |-> "alignment", score |-> 9230],
                           [name |-> "core_strength", score |-> 10000],
                           [name |-> "symmetry", score |-> 8750],
                           [name |-> "shoulder_position", score |-> 8520] >>,
         feedback |-> <<"excellent", "excellent", "good">>,
         global_score |-> 8150,
         skill_level |-> "advanced",
         priority_indicator |-> [name |-> "shoulder_position", score |-> 8520,
                                 improvement_needed |-> "modere"],
         recommended_exercise |-> [difficulty |-> "intermediate",
                                   target_indicator |-> "shoulder_position"]]]

-----------------------------------------------------------------------------
(* Presentation of a report: ResultsPanel.jsx and RadarChart.jsx.          *)

\* renderQualityAnalysis: the "unavailable" block is rendered
QualityUnavailable(quality_analysis) ==
    quality_analysis = Null \/ "indicators" \notin DOMAIN quality_analysis

\* RadarScore without the division by 10
RadarScore_scaled(value) == value * 10

\* RadarChart data: Math.round(value * 10) / 10
RadarScore(value) == 10 * RoundDiv(value, 10)

\* ResultsPanel score circle: '0' without a score, else Math.round(global_score)
ScoreNumber(quality_analysis) ==
    IF "global_score" \notin DOMAIN quality_analysis THEN 0
    ELSE 100 * RoundDiv(quality_analysis.global_score, 100)

\* the five severity levels of a feedback message
FeedbackLevels == {"excellent", "good", "warning", "tip", "encouragement"}

\* the lexical marker of a level, as the characters of the string: U+2713
\* twice, U+2713, U+26A0 U+FE0F, U+1F4A1, U+1F4AA
Marker(level) ==
    CASE level = "excellent" -> <<"check", "check">>
      [] level = "good" -> <<"check">>
      [] level = "warning" -> <<"warn", "vs16">>
      [] level = "tip" -> <<"bulb">>
      [] level = "encouragement" -> <<"muscle">>

\* U+1F3C6
Trophy == <<"trophy">>

\* a feedback message of a level: its marker, then its text
Message(level) == Marker(level) \o <<" ", "t", "e", "x", "t">>

\* String.prototype.includes
includes(s, sub) ==
    \E i \in 0..(Len(s) - Len(sub)) : SubSeq(s, i + 1, i + Len(sub)) = sub

\* ResultsPanel.getFeedbackClass
getFeedbackClass(feedback) ==
    IF includes(feedback, Marker("excellent")) \/ includes(feedback, Trophy)
    THEN "feedback-excellent"
    ELSE IF includes(feedback, Marker("good")) THEN "feedback-good"
    ELSE IF includes(feedback, Marker("warning")) THEN "feedback-warning"
    ELSE IF includes(feedback, Marker("tip")) \/ includes(feedback, Marker("encouragement"))
         THEN "feedback-tip"
    ELSE "feedback-neutral"

\* the values of skill_level in a report
Levels == {"beginner", "intermediate", "advanced", "expert"}

\* the labels object of getSkillLevelLabel, the same in ResultsPanel and in
\* Dashboard (the accents of the labels are left out)
labels ==
    [beginner |-> "Debutant", intermediate |-> "Intermediaire", advanced |-> "Avance"]

\* ResultsPanel.getSkillLevelLabel: labels[level] || level
getSkillLevelLabel(level) ==
    IF level \in DOMAIN labels THEN labels[level] ELSE level

\* Dashboard.getSkillLevelLabel: labels[level] || level
DashboardGetSkillLevelLabel(level) ==
    IF level \in DOMAIN labels THEN labels[level] ELSE level

-----------------------------------------------------------------------------
(* Routes of App.jsx.                                                      *)

\* URLs asked of the router; "/profile" stands for any path without a route
Paths == {"/", "/login", "/register", "/dashboard", "/dashboard-debug", "/profile"}

\* ProtectedRoute without the isAuthenticated test
ProtectedRoute_noCheck(authed, path, child) ==
    [location |-> path, page |-> child]

\* ProtectedRoute: the children when authenticated, else <Navigate to="/login">
ProtectedRoute(authed, path, child) ==
    IF ~authed THEN [location |-> "/login", page |-> "Login"]
    ELSE [location |-> path, page |-> child]

\* <Routes> of App: the URL and the page that a visit of path ends on
RouteElement(path, authed) ==
    CASE path = "/" -> [location |-> "/", page |-> "Home"]
      [] path = "/login" -> [location |-> "/login", page |-> "Login"]
      [] path = "/register" -> [location |-> "/register", page |-> "Register"]
      [] path = "/dashboard" -> ProtectedRoute(authed, path, "Dashboard")
      [] path = "/dashboard-debug" -> ProtectedRoute(authed, path, "DashboardDebug")
      [] OTHER -> [location |-> "/", page |-> "Home"]

\* the router renders path (a typed URL, a link, navigate(path))
Navigate(path) ==
    /\ requested' = path
    /\ renderAuth' = (access_token' # NoToken)
    /\ location' = RouteElement(path, renderAuth').location
    /\ page' = RouteElement(path, renderAuth').page

\* the user opens a URL
Visit(path) ==
    /\ UNCHANGED <<access_token, refresh_token, reqs, analysisVars>>
    /\ Navigate(path)

\* handleLogout of Home, Dashboard and DashboardDebug, after await logout()
HandleLogoutNavigate(r) ==
    /\ reqs[r].st = "returned"
    /\ reqs[r].kind = "logout"
    /\ reqs' = [reqs EXCEPT ![r] = IdleReq]
    /\ UNCHANGED <<access_token, refresh_token, analysisVars>>
    /\ Navigate("/login")

\* RadarChart: the data drawn for an IndicatorSet
RadarData(indicators) ==
    [k \in 1..Len(indicators) |->
        [indicator |-> indicators[k].name,
         score |-> RadarScore(indicators[k].score),
         fullMark |-> FullScore]]

\* renderQualityAnalysis: what is shown of a quality analysis
Presentation(quality_analysis) ==
    IF QualityUnavailable(quality_analysis)
    THEN [panel |-> "unavailable"]
    ELSE [panel |-> "full",
          radar |-> RadarData(quality_analysis.indicators),
          scoreNumber |-> ScoreNumber(quality_analysis)]

-----------------------------------------------------------------------------
(* Landmarks on the client and the requests of an analysis.                *)

\* formatLandmarksForBackend giving the landmarks last to first
formatLandmarksForBackend_reversed(landmarks) ==
    [i \in 1..Len(landmarks) |->
        [f \in LandmarkFields \cap DOMAIN landmarks[Len(landmarks) + 1 - i] |->
            landmarks[Len(landmarks) + 1 - i][f]]]

\* formatLandmarksForBackend: x, y, z and visibility of every landmark, in
\* order; a field that is undefined is not serialised in the request
formatLandmarksForBackend(landmarks) ==
    [i \in 1..Len(landmarks) |->
        [f \in LandmarkFields \cap DOMAIN landmarks[i] |-> landmarks[i][f]]]

\* Math.atan2(dy, dx) in degrees, for the directions of the axes and of the
\* diagonals (dx = 0, dy = 0 or |dx| = |dy|); atan2(0, 0) is 0
atan2(dy, dx) ==
    CASE dy = 0 /\ dx >= 0 -> 0
      [] dy = 0 /\ dx < 0 -> 180
      [] dy > 0 /\ dx = 0 -> 90
      [] dy < 0 /\ dx = 0 -> 0 - 90
      [] dy > 0 /\ dx > 0 -> 45
      [] dy > 0 /\ dx < 0 -> 135
      [] dy < 0 /\ dx > 0 -> 0 - 45
      [] dy < 0 /\ dx < 0 -> 0 - 135

\* Math.abs
MathAbs(v) == IF v < 0 THEN 0 - v ELSE v

\* calculateAngle without the reflection of the angles above 180
calculateAngle_noReflection(a, b, c) ==
    MathAbs(atan2(c.y - b.y, c.x - b.x) - atan2(a.y - b.y, a.x - b.x))

\* calculateAngle(a, b, c), in degrees: the radians are kept in degrees
\* throughout, radians * 180.0 / Math.PI being the conversion
calculateAngle(a, b, c) ==
    LET radians == atan2(c.y - b.y, c.x - b.x) - atan2(a.y - b.y, a.x - b.x)
        angle == MathAbs(radians)
    IN  IF angle > 180 THEN 360 - angle ELSE angle

\* the results WebcamCapture and MediaPipeProcessor hand to onResults
OnResults(poseLandmarks, now) ==
    [landmarks |-> formatLandmarksForBackend(poseLandmarks), timestamp |-> now]

\* apiService.analyzeComplete(landmarks, userLevel = null)
analyzeComplete(landmarks, userLevel) ==
    Request("complete", "/complete-analysis",
            [landmarks |-> landmarks, user_level |-> userLevel])

\* apiService.classifyPose(landmarks)
classifyPose(landmarks) ==
    Request("classify", "/classify", [landmarks |-> landmarks])

\* apiService.analyzePoseQuality(landmarks, poseName, userLevel = 'intermediate')
analyzePoseQuality(landmarks, poseName, userLevel) ==
    Request("analyze", "/analyze",
            [landmarks |-> landmarks, pose_name |-> poseName, user_level |-> userLevel])

\* HomeFirstRequest sending the capture time with the landmarks
HomeFirstRequest_stamped(results, authed) ==
    IF authed
    THEN Request("complete", "/complete-analysis",
                 [landmarks |-> results.landmarks, timestamp |-> results.timestamp])
    ELSE classifyPose(results.landmarks)

\* HomeFirstRequest taking the public path whatever isAuthenticated holds
HomeFirstRequest_classifyOnly(results, authed) ==
    classifyPose(results.landmarks)

\* Home.handleMediaPipeResults: the first request of an analysis
HomeFirstRequest(results, authed) ==
    IF authed
    THEN analyzeComplete(results.landmarks, Null)
    ELSE classifyPose(results.landmarks)

\* HomeSecondRequest naming a fixed posture
HomeSecondRequest_plank(results, classification) ==
    analyzePoseQuality(results.landmarks, "plank", "intermediate")

\* Home.handleMediaPipeResults: the request that follows a classification
HomeSecondRequest(results, classification) ==
    analyzePoseQuality(results.landmarks, classification.pose, "intermediate")

\* the requests made by the analyses of Home
HomeKinds == {"complete", "classify", "analyze"}

\* a landmark as MediaPipe gives it
Landmark(x, y, v) == [x |-> x, y |-> y, z |-> 0, visibility |-> v, presence |-> v]

\* n landmarks, spread by dx along x and by dy along y inside every group of
\* PointsPerIndicator
Skeleton(n, dx, dy, v) ==
    [i \in 1..n |-> Landmark(1000 + dx * (i % PointsPerIndicator),
                             1000 + dy * (i % PointsPerIndicator), v)]

\* a landmark whose visibility is undefined
NoVisibility(lm) == [f \in DOMAIN lm \ {"visibility"} |-> lm[f]]

\* results.poseLandmarks of the frames analysed: all points coincident, a
\* good posture, a poor posture hardly visible, 30 landmarks, a landmark
\* with a field missing, no landmark
PoseLandmarkSamples ==
    { Skeleton(33, 0, 0, 100),
      Skeleton(33, 100, 3, 90),
      Skeleton(33, 700, 250, 5),
      Skeleton(30, 100, 3, 90),
      [Skeleton(33, 100, 3, 90) EXCEPT ![7] = NoVisibility(@)],
      << >> }

\* Date.now() of the frames
Nows == {1, 2}

-----------------------------------------------------------------------------
(* The analysis endpoints of the server (api.py, api_v2.py).               *)

\* confidences of the classifier, in percent
Confidences == {40, 69, 70, 94}

\* labels a classification response can carry: the five postures, and a
\* label no analyzer is declared for
ClassifierLabels == Poses \cup {"cobra"}

\* POST /complete-analysis: classification, then the Quality Report Builder
\* with the confidence of that classification
CompleteAnalysis(body) ==
    IF ~ShapeOk(body.landmarks)
    THEN {[failure |-> "shape"]}
    ELSE {[failure |-> "none", confidence |-> c,
           data |-> [success |-> TRUE,
                     classification |-> [pose |-> p, confidence |-> c],
                     quality_analysis |-> analyzeQuality(body.landmarks, p, c).report]] :
            p \in Poses, c \in Confidences}

\* POST /classify: the classifier alone
Classify(body) ==
    IF ~ShapeOk(body.landmarks)
    THEN {[failure |-> "shape"]}
    ELSE {[failure |-> "none", confidence |-> c,
           data |-> [success |-> TRUE, pose |-> p, confidence |-> c]] :
            p \in ClassifierLabels, c \in Confidences}
         \cup {[failure |-> "none", data |-> [success |-> FALSE]]}

\* the outcome of the Quality Report Builder as an answer
BuilderAnswer(built, c) ==
    IF built.failure # "none"
    THEN [failure |-> built.failure, confidence |-> c]
    ELSE [failure |-> "none", confidence |-> c, data |-> built.report]

\* POST /analyze: the Quality Report Builder on the posture named by the
\* request; the request carries no confidence, the builder is given one the
\* client has no hand in
Analyze(body) ==
    {BuilderAnswer(analyzeQuality(body.landmarks, body.pose_name, c), c) : c \in Confidences}

\* what the server can compute for a request
ServerOutcomes(req) ==
    CASE req.kind = "complete" -> CompleteAnalysis(req.body)
      [] req.kind = "classify" -> Classify(req.body)
      [] req.kind = "analyze" -> Analyze(req.body)

\* the server processes the analysis request in flight
Serve ==
    /\ reqs[1].st = "sent"
    /\ reqs[1].kind \in HomeKinds
    /\ server = Null
    /\ \E out \in ServerOutcomes(reqs[1]) : server' = out
    /\ UNCHANGED <<access_token, refresh_token, reqs, requested, location, page,
                   renderAuth, home, fnIn, fnOut, form, webcam>>

\* the status the server answers the analysis request with: 401 before any
\* processing, 500 on a hard failure or when it cannot process, 200 with
\* the data
ServerStatus(status) ==
    IF server = Null
    THEN status \in {401, 500}
    ELSE status = (IF server.failure = "none" THEN 200 ELSE 500)

\* the answer to an analysis request reaches the response interceptor
HomeResponse(status) ==
    /\ reqs[1].kind \in HomeKinds
    /\ ServerStatus(status)
    /\ HandleResponse(1, status)

-----------------------------------------------------------------------------
(* The Home page.                                                          *)

\* useState(...) of Home when it mounts, no analysis in progress
HomeMounted ==
    [pc |-> "idle", results |-> Null, classification |-> Null,
     analysisResults |-> Null, error |-> Null, isAnalyzing |-> FALSE]

\* undefined, where null is told from it
Undefined == [undefined |-> TRUE]

\* what Home and ResultsPanel render for analysisResults
Panel(analysisResults) ==
    IF analysisResults = Null \/ analysisResults = Undefined THEN "placeholder"
    ELSE IF ~analysisResults.success THEN "error"
    ELSE IF QualityUnavailable(analysisResults.quality_analysis) THEN "unavailable"
    ELSE "full"

\* Home.handleMediaPipeResults(results), up to its first await
HandleMediaPipeResults(results) ==
    /\ page = "Home"
    /\ home.pc = "idle"
    /\ reqs[1].st = "idle"
    /\ IF Len(results.landmarks) = 0
       THEN UNCHANGED <<home, reqs>>
       ELSE /\ home' = [home EXCEPT !.pc = IF renderAuth THEN "complete" ELSE "classify",
                                    !.results = results,
                                    !.classification = Null,
                                    !.isAnalyzing = TRUE,
                                    !.error = Null]
            /\ reqs' = [reqs EXCEPT ![1] = HomeFirstRequest(results, renderAuth)]
    /\ UNCHANGED <<access_token, refresh_token, requested, location, page, renderAuth,
                   server, fnIn, fnOut, form, webcam>>

\* after await analyzeComplete: setAnalysisResults(analysis); finally
AfterAnalyzeComplete ==
    /\ home.pc = "complete"
    /\ reqs[1].st = "settled"
    /\ reqs[1].result = "fulfilled"
    /\ home' = [home EXCEPT !.pc = "idle", !.analysisResults = server.data,
                            !.isAnalyzing = FALSE]
    /\ reqs' = [reqs EXCEPT ![1] = IdleReq]
    /\ server' = Null
    /\ UNCHANGED <<access_token, refresh_token, requested, location, page, renderAuth,
                   fnIn, fnOut, form, webcam>>

\* after await classifyPose: the second request if classification.success,
\* else setAnalysisResults(undefined); finally
AfterClassifyPose ==
    /\ home.pc = "classify"
    /\ reqs[1].st = "settled"
    /\ reqs[1].result = "fulfilled"
    /\ IF server.data.success
       THEN /\ home' = [home EXCEPT !.pc = "analyze", !.classification = server.data]
            /\ reqs' = [reqs EXCEPT ![1] = HomeSecondRequest(home.results, server.data)]
       ELSE /\ home' = [home EXCEPT !.pc = "idle", !.classification = server.data,
                                    !.analysisResults = Undefined,
                                    !.isAnalyzing = FALSE]
            /\ reqs' = [reqs EXCEPT ![1] = IdleReq]
    /\ server' = Null
    /\ UNCHANGED <<access_token, refresh_token, requested, location, page, renderAuth,
                   fnIn, fnOut, form, webcam>>

\* after await analyzePoseQuality: setAnalysisResults({success, classification,
\* quality_analysis}); finally
AfterAnalyzePoseQuality ==
    /\ home.pc = "analyze"
    /\ reqs[1].st = "settled"
    /\ reqs[1].result = "fulfilled"
    /\ home' = [home EXCEPT !.pc = "idle",
                            !.analysisResults =
                                [success |-> TRUE,
                                 classification |-> home.classification,
                                 quality_analysis |-> server.data],
                            !.isAnalyzing = FALSE]
    /\ reqs' = [reqs EXCEPT ![1] = IdleReq]
    /\ server' = Null
    /\ UNCHANGED <<access_token, refresh_token, requested, location, page, renderAuth,
                   fnIn, fnOut, form, webcam>>

\* err.response?.status of the error a request is rejected with; the error of
\* a failed refresh call is the one of that call
ErrorStatuses(err) ==
    CASE err = "401" -> {401}
      [] err = "500" -> {500}
      [] err = "refresh" -> {401, 500}

\* catch (err) of handleMediaPipeResults: navigate('/login') on a 401, else
\* setError; finally
CatchAnalysisError(status) ==
    /\ home.pc # "idle"
    /\ reqs[1].st = "settled"
    /\ reqs[1].result = "rejected"
    /\ status \in ErrorStatuses(reqs[1].err)
    /\ reqs' = [reqs EXCEPT ![1] = IdleReq]
    /\ server' = Null
    /\ UNCHANGED <<access_token, refresh_token, fnIn, fnOut, form, webcam>>
    /\ IF status = 401
       THEN /\ home' = [home EXCEPT !.pc = "idle", !.isAnalyzing = FALSE]
            /\ Navigate("/login")
       ELSE /\ home' = [home EXCEPT !.pc = "idle", !.error = "analysis",
                                    !.isAnalyzing = FALSE]
            /\ UNCHANGED <<requested, location, page, renderAuth>>

\* the user opens the home page: Home mounts
OpenHome ==
    /\ home.pc = "idle"
    /\ home' = HomeMounted
    /\ UNCHANGED <<access_token, refresh_token, reqs, server, fnIn, fnOut, form, webcam>>
    /\ Navigate("/")

-----------------------------------------------------------------------------
(* The Login and Register pages.                                           *)

\* useState(...) of Login and of Register when they mount: nothing typed, no
\* error, not loading
FormMounted == [pc |-> "idle", formData |-> Null, error |-> "", loading |-> FALSE]

\* the requests made by the submissions of Login and Register
AuthKinds == {"login", "register"}

\* characters matched by /[A-Z]/, /[a-z]/ and /[0-9]/
UpperCase == {"A", "Z"}
LowerCase == {"a", "z"}
Digit == {"0", "9"}

\* regex.test(password) for a character class
Test(class, password) == \E i \in 1..Len(password) : password[i] \in class

\* formData.password.length < 8
MinPasswordLength == 8

\* validateForm testing the length only
validateForm_lengthOnly(formData) ==
    IF Len(formData.password) < MinPasswordLength THEN "length" ELSE ""

\* Register.validateForm: the error it sets, "" when it returns true
validateForm(formData) ==
    IF formData.password # formData.confirmPassword THEN "mismatch"
    ELSE IF Len(formData.password) < MinPasswordLength THEN "length"
    ELSE IF \/ ~Test(UpperCase, formData.password)
            \/ ~Test(LowerCase, formData.password)
            \/ ~Test(Digit, formData.password)
         THEN "complexity"
    ELSE ""

\* apiService.login(email, password)
login(email, password) ==
    Request("login", "/auth/login", [email |-> email, password |-> password])

\* apiService.register(email, username, password, skillLevel)
register(email, username, password, skillLevel) ==
    Request("register", "/auth/register",
            [email |-> email, username |-> username, password |-> password,
             skill_level |-> skillLevel])

\* passwords typed in the forms, as sequences of characters: valid with 8
\* and with 9 characters, 7 characters, no upper case letter of [A-Z], no
\* lower case letter, no digit, empty
PasswordSamples ==
    { <<"A", "a", "z", "a", "a", "a", "a", "0">>,
      <<"Z", "a", "9", "!", "a", "a", "a", "a", "a">>,
      <<"A", "a", "a", "a", "a", "a", "0">>,
      <<"!", "a", "a", "a", "a", "a", "a", "0">>,
      <<"A", "Z", "A", "A", "A", "A", "A", "9">>,
      <<"A", "a", "a", "a", "a", "a", "a", "!">>,
      << >> }

\* what the user has typed in Login
LoginForms == [email : {"u@x"}, password : PasswordSamples]

\* what the user has typed in Register
RegisterForms ==
    [username : {"u"}, email : {"u@x"}, password : PasswordSamples,
     confirmPassword : PasswordSamples, skillLevel : {"beginner"}]

\* Login.handleSubmit, up to its await
LoginSubmit(formData) ==
    /\ page = "Login"
    /\ form.pc = "idle"
    /\ reqs[1].st = "idle"
    /\ form' = [pc |-> "login", formData |-> formData, error |-> "", loading |-> TRUE]
    /\ reqs' = [reqs EXCEPT ![1] = login(formData.email, formData.password)]
    /\ UNCHANGED <<access_token, refresh_token, requested, location, page, renderAuth,
                   home, server, fnIn, fnOut, webcam>>

\* Register.handleSubmit, up to its await or to the return after validateForm
RegisterSubmit(formData) ==
    /\ page = "Register"
    /\ form.pc = "idle"
    /\ reqs[1].st = "idle"
    /\ IF validateForm(formData) # ""
       THEN /\ form' = [pc |-> "idle", formData |-> formData,
                        error |-> validateForm(formData), loading |-> FALSE]
            /\ UNCHANGED reqs
       ELSE /\ form' = [pc |-> "register", formData |-> formData, error |-> "",
                        loading |-> TRUE]
            /\ reqs' = [reqs EXCEPT ![1] = register(formData.email, formData.username,
                                                    formData.password,
                                                    formData.skillLevel)]
    /\ UNCHANGED <<access_token, refresh_token, requested, location, page, renderAuth,
                   home, server, fnIn, fnOut, webcam>>

\* the response of POST /auth/login (SETUP_V2.md, Connexion): success with
\* the tokens, or no success
LoginOutcomes ==
    { [failure |-> "none",
       data |-> [success |-> TRUE,
                 tokens |-> [access_token |-> a, refresh_token |-> rt]]] :
         a \in AccessTokens, rt \in RefreshTokens }
    \cup { [failure |-> "none", data |-> [success |-> FALSE]] }

\* the response of POST /auth/register: success or not
RegisterOutcomes ==
    { [failure |-> "none", data |-> [success |-> s]] : s \in BOOLEAN }

\* the server accepts the request of a submission and computes its response
AuthServe ==
    /\ reqs[1].st = "sent"
    /\ reqs[1].kind \in AuthKinds
    /\ server = Null
    /\ \E out \in (IF reqs[1].kind = "login" THEN LoginOutcomes ELSE RegisterOutcomes) :
            server' = out
    /\ UNCHANGED <<access_token, refresh_token, reqs, requested, location, page,
                   renderAuth, home, fnIn, fnOut, form, webcam>>

\* the answer to the request of a submission reaches the response interceptor
AuthResponse(status) ==
    /\ reqs[1].kind \in AuthKinds
    /\ ServerStatus(status)
    /\ HandleResponse(1, status)

\* AfterLogin without the setItem calls of apiService.login
AfterLogin_noStore ==
    /\ form.pc = "login"
    /\ reqs[1].st = "settled"
    /\ reqs[1].result = "fulfilled"
    /\ UNCHANGED <<access_token, refresh_token>>
    /\ reqs' = [reqs EXCEPT ![1] = IdleReq]
    /\ server' = Null
    /\ UNCHANGED <<home, fnIn, fnOut, webcam>>
    /\ IF server.data.success
       THEN /\ form' = [form EXCEPT !.pc = "idle", !.loading = FALSE]
            /\ Navigate("/dashboard")
       ELSE /\ form' = [form EXCEPT !.pc = "idle", !.error = "message",
                                    !.loading = FALSE]
            /\ UNCHANGED <<requested, location, page, renderAuth>>

\* apiService.login after its await (the tokens of the response are stored)
\* and Login.handleSubmit after its own: navigate('/dashboard') on success,
\* else setError; finally
AfterLogin ==
    /\ form.pc = "login"
    /\ reqs[1].st = "settled"
    /\ reqs[1].result = "fulfilled"
    /\ LET data == server.data
           tokens == IF "tokens" \in DOMAIN data THEN data.tokens ELSE Null
       IN  /\ access_token' = IF "access_token" \in DOMAIN tokens
                              THEN tokens.access_token ELSE access_token
           /\ refresh_token' = IF "refresh_token" \in DOMAIN tokens
                               THEN tokens.refresh_token ELSE refresh_token
    /\ reqs' = [reqs EXCEPT ![1] = IdleReq]
    /\ server' = Null
    /\ UNCHANGED <<home, fnIn, fnOut, webcam>>
    /\ IF server.data.success
       THEN /\ form' = [form EXCEPT !.pc = "idle", !.loading = FALSE]
            /\ Navigate("/dashboard")
       ELSE /\ form' = [form EXCEPT !.pc = "idle", !.error = "message",
                                    !.loading = FALSE]
            /\ UNCHANGED <<requested, location, page, renderAuth>>

\* the page after the catch and finally of a handleSubmit whose request was
\* rejected with err: setError(...), setLoading(false); when the rejection is
\* that of the refresh call, the interceptor has assigned window.location.href
\* and the document that loads mounts the Login page anew
AfterRejection(err) ==
    IF err = "refresh" THEN FormMounted
    ELSE [form EXCEPT !.pc = "idle", !.error = "message", !.loading = FALSE]

\* catch (err) of Login.handleSubmit
CatchLoginError ==
    /\ form.pc = "login"
    /\ reqs[1].st = "settled"
    /\ reqs[1].result = "rejected"
    /\ form' = AfterRejection(reqs[1].err)
    /\ reqs' = [reqs EXCEPT ![1] = IdleReq]
    /\ server' = Null
    /\ UNCHANGED <<access_token, refresh_token, requested, location, page, renderAuth,
                   home, fnIn, fnOut, webcam>>

\* Register.handleSubmit after await apiService.register: navigate('/login')
\* on success (Login mounts), else setError; finally
AfterRegister ==
    /\ form.pc = "register"
    /\ reqs[1].st = "settled"
    /\ reqs[1].result = "fulfilled"
    /\ reqs' = [reqs EXCEPT ![1] = IdleReq]
    /\ server' = Null
    /\ UNCHANGED <<access_token, refresh_token, home, fnIn, fnOut, webcam>>
    /\ IF server.data.success
       THEN /\ form' = FormMounted
            /\ Navigate("/login")
       ELSE /\ form' = [form EXCEPT !.pc = "idle", !.error = "message",
                                    !.loading = FALSE]
            /\ UNCHANGED <<requested, location, page, renderAuth>>

\* catch (err) of Register.handleSubmit
CatchRegisterError ==
    /\ form.pc = "register"
    /\ reqs[1].st = "settled"
    /\ reqs[1].result = "rejected"
    /\ form' = AfterRejection(reqs[1].err)
    /\ reqs' = [reqs EXCEPT ![1] = IdleReq]
    /\ server' = Null
    /\ UNCHANGED <<access_token, refresh_token, requested, location, page, renderAuth,
                   home, fnIn, fnOut, webcam>>

\* the user opens the login page: Login mounts
OpenLogin ==
    /\ form.pc = "idle"
    /\ form' = FormMounted
    /\ UNCHANGED <<access_token, refresh_token, reqs, home, server, fnIn, fnOut, webcam>>
    /\ Navigate("/login")

\* the user opens the registration page: Register mounts
OpenRegister ==
    /\ form.pc = "idle"
    /\ form' = FormMounted
    /\ UNCHANGED <<access_token, refresh_token, reqs, home, server, fnIn, fnOut, webcam>>
    /\ Navigate("/register")

-----------------------------------------------------------------------------
(* The WebcamCapture component and the shared MediaPipe service.  The       *)
(* Camera of @mediapipe/camera_utils is outside the sources: start() is     *)
(* pending until the stream is acquired or refused, and stop() releases the *)
(* stream of a started Camera.                                             *)
-----------------------------------------------------------------------------

\* result frames counted, Camera objects created and mounts of the component
MaxFrames == 32
MaxCameras == 2
MaxMounts == 2

\* handleMediaPipeResults forwards when frameCount % 30 === 0
ThrottleFrames == 30

CameraIds == 1..MaxCameras

\* mediapipeService.camera = null, mediapipeService.onResultsCallback = null
NoCamera == 0
NoCallback == -1

\* the other variables, left alone by the webcam
pagesVars == <<access_token, refresh_token, reqs, requested, location, page,
               renderAuth, home, server, fnIn, fnOut, form>>

\* WebcamCapture after its first render and effect, and the service as
\* constructed.  cameras are the Camera objects created so far, awaiting the
\* Cameras whose start() a call of startWebcam awaits, inFlight a frame sent
\* to the Pose whose results are not delivered yet; forwards and since count
\* the calls of the parent's onResults since the webcam was started, and the
\* result frames after the last of these calls.
WebcamMounted ==
    [mounted |-> TRUE, instance |-> 1,
     isActive |-> FALSE, isProcessing |-> FALSE, detectionStatus |-> "",
     frameCount |-> 0,
     pose |-> FALSE, camera |-> NoCamera,
     onResultsCallback |-> [frameCount |-> NoCallback, instance |-> 0],
     cameras |-> [c \in CameraIds |-> [state |-> "none", instance |-> 0]],
     awaiting |-> {}, inFlight |-> FALSE,
     forwards |-> 0, since |-> ThrottleFrames]

\* videoRef.current: the video element is rendered while isActive
videoRef(w) == w.mounted /\ w.isActive

\* Camera.stop(): the stream of a running Camera is released; a Camera whose
\* start() is pending has no stream yet
CameraStop(cam) ==
    IF cam.state = "running" THEN [cam EXCEPT !.state = "stopped"]
    ELSE IF cam.state = "starting" THEN [cam EXCEPT !.state = "stopping"]
    ELSE cam

\* MediaPipeService.stopCamera
stopCamera(w) ==
    IF w.camera # NoCamera
    THEN [w EXCEPT !.cameras[w.camera] = CameraStop(@), !.camera = NoCamera]
    ELSE w

\* WebcamCapture.stopWebcam
stopWebcam(w) ==
    [stopCamera(w) EXCEPT !.detectionStatus = "", !.frameCount = 0]

\* a Camera object not created yet
NewCamera(w) == CHOOSE c \in CameraIds : \A d \in CameraIds : w.cameras[d].state = "none" => c <= d

\* MediaPipeService.startCamera up to the call of this.camera.start()
startCamera(w) ==
    LET c == NewCamera(w)
    IN  [w EXCEPT !.camera = c,
                  !.cameras[c] = [state |-> "starting", instance |-> w.instance],
                  !.awaiting = @ \cup {c}]

\* MediaPipeService.initialize
initialize(w, frameCount) ==
    [w EXCEPT !.onResultsCallback = [frameCount |-> frameCount, instance |-> w.instance],
              !.pose = TRUE]

\* WebcamCapture.startWebcam up to `await mediapipeService.startCamera`, with
\* the handleMediaPipeResults of the render that runs the effect: it holds
\* the frameCount of that render.  The continuation of `await initialize` is
\* a microtask of the same task.
startWebcam(w, frameCount) ==
    LET i == initialize([w EXCEPT !.isProcessing = TRUE, !.detectionStatus = "init"],
                        frameCount)
    IN  IF videoRef(i) THEN startCamera(i) ELSE i

\* toggleWebcam, the render it causes and the effect of [isActive]: the
\* cleanup of the last effect, then startWebcam or stopWebcam
ToggleWebcam ==
    /\ webcam.mounted
    /\ IF webcam.isActive
       THEN webcam' = stopWebcam(stopWebcam([webcam EXCEPT !.isActive = FALSE]))
       ELSE /\ \E c \in CameraIds : webcam.cameras[c].state = "none"
            /\ webcam' = startWebcam(stopWebcam([webcam EXCEPT !.isActive = TRUE,
                                                               !.forwards = 0,
                                                               !.since = ThrottleFrames]),
                                     webcam.frameCount)
    /\ UNCHANGED pagesVars

\* the state setters of the component instance i: without effect once it is
\* unmounted
SetState(w, i, status, processing) ==
    IF w.mounted /\ w.instance = i
    THEN [w EXCEPT !.detectionStatus = status, !.isProcessing = processing]
    ELSE w

\* this.camera.start() resolves and startWebcam goes on.  A Camera stopped
\* while its start() was pending either stays without stream or gets it.
StartResolved(c) ==
    /\ c \in webcam.awaiting
    /\ \E state \in {"running", "stopped"} :
            /\ webcam.cameras[c].state = "starting" => state = "running"
            /\ webcam' = SetState([webcam EXCEPT !.cameras[c].state = state,
                                                 !.awaiting = @ \ {c}],
                                  webcam.cameras[c].instance, "active", FALSE)
    /\ UNCHANGED pagesVars

\* this.camera.start() rejects (no camera, permission refused): the catch
\* of startWebcam
StartRejected(c) ==
    /\ c \in webcam.awaiting
    /\ webcam' = SetState([webcam EXCEPT !.cameras[c].state = "failed",
                                         !.awaiting = @ \ {c}],
                          webcam.cameras[c].instance, "error", FALSE)
    /\ UNCHANGED pagesVars

\* onFrame of a running Camera: this.pose.send({image: videoElement})
SendFrame ==
    /\ \E c \in CameraIds : webcam.cameras[c].state = "running"
    /\ webcam.pose
    /\ ~webcam.inFlight
    /\ webcam.frameCount < MaxFrames
    /\ webcam.forwards < MaxFrames
    /\ webcam' = [webcam EXCEPT !.inFlight = TRUE]
    /\ UNCHANGED pagesVars

\* handleMediaPipeResults: results.poseLandmarks && frameCount % 30 === 0
Forwards(poseLandmarks, frameCount) ==
    poseLandmarks /\ frameCount % ThrottleFrames = 0

\* WebcamCapture.handleMediaPipeResults of the closure cb on results with or
\* without poseLandmarks
handleMediaPipeResults(w, cb, poseLandmarks) ==
    LET counted == IF w.mounted /\ w.instance = cb.instance
                   THEN [w EXCEPT !.frameCount = @ + 1] ELSE w
    IN  IF Forwards(poseLandmarks, cb.frameCount)
        THEN [SetState(counted, cb.instance, "detected", counted.isProcessing)
                EXCEPT !.forwards = @ + 1, !.since = 0]
        ELSE [SetState(counted, cb.instance,
                       IF poseLandmarks THEN counted.detectionStatus ELSE "none",
                       counted.isProcessing)
                EXCEPT !.since = IF @ < ThrottleFrames THEN @ + 1 ELSE @]

\* the Pose delivers the results of the frame in flight to the callback of
\* initialize
DeliverResults(poseLandmarks) ==
    /\ webcam.inFlight
    /\ LET w == [webcam EXCEPT !.inFlight = FALSE]
       IN  webcam' = IF w.onResultsCallback.frameCount # NoCallback
                     THEN handleMediaPipeResults(w, w.onResultsCallback, poseLandmarks)
                     ELSE w
    /\ UNCHANGED pagesVars

\* Home leaves the webcam mode: the cleanup of the effect
Unmount ==
    /\ webcam.mounted
    /\ webcam' = [stopWebcam(webcam) EXCEPT !.mounted = FALSE, !.isActive = FALSE,
                                            !.isProcessing = FALSE]
    /\ UNCHANGED pagesVars

\* Home shows the webcam again: a new WebcamCapture, whose effect calls
\* stopWebcam
Mount ==
    /\ ~webcam.mounted
    /\ webcam.instance < MaxMounts
    /\ webcam' = stopWebcam([webcam EXCEPT !.mounted = TRUE, !.instance = @ + 1,
                                           !.forwards = 0,
                                           !.since = ThrottleFrames])
    /\ UNCHANGED pagesVars

-----------------------------------------------------------------------------
(* The functions of the analysis applied to sample inputs.                 *)

\* deviations of the landmarks of an indicator, in 1/10000 of the unit
DeviationSamples == {0, 1, 5, 417, 1667, 3334}

\* 33 landmarks whose k-th group deviates by devs[k] along x and y
SkeletonOf(devs) ==
    [i \in 1..NumLandmarks |->
        Landmark(1000 + (IF (i - 1) \div PointsPerIndicator < Len(devs)
                            /\ i % PointsPerIndicator = 0
                         THEN devs[(i - 1) \div PointsPerIndicator + 1] ELSE 0),
                 1000 + (IF (i - 1) \div PointsPerIndicator < Len(devs)
                            /\ i % PointsPerIndicator = 0
                         THEN devs[(i - 1) \div PointsPerIndicator + 1] ELSE 0),
                 100)]

\* global scores around the edges of the skill bands
GlobalSamples == {0, 4990, 5000, 6990, 7000, 8490, 8500, 10000}

\* what the api instance, the router and Home hold: left alone by the
\* application of a function
programVars == <<access_token, refresh_token, reqs, requested, location, page,
                 renderAuth, home, server, form, webcam>>

\* the Quality Report Builder on a frame with the given deviations, and the
\* presentation of its report
AnalyzeFrame ==
    /\ fnIn = Null
    /\ \E pose \in Poses, c \in Confidences :
        \E devs \in [1..Len(IndicatorNames(pose)) -> DeviationSamples] :
            /\ fnIn' = [op |-> "frame", pose |-> pose, devs |-> devs, confidence |-> c]
            /\ LET built == analyzeQuality(formatLandmarksForBackend(SkeletonOf(devs)),
                                           pose, c)
               IN  fnOut' = [built |-> built, shown |-> Presentation(built.report)]
    /\ UNCHANGED programVars

\* the Quality Report Builder on a sample frame and a label
AnalyzeSample ==
    /\ fnIn = Null
    /\ \E pl \in PoseLandmarkSamples, label \in ClassifierLabels, c \in Confidences :
            /\ fnIn' = [op |-> "sample", pose |-> label, landmarks |-> pl,
                        confidence |-> c]
            /\ LET built == analyzeQuality(formatLandmarksForBackend(pl), label, c)
               IN  fnOut' = [built |-> built,
                             shown |-> IF built.failure = "none"
                                       THEN Presentation(built.report)
                                       ELSE [panel |-> "none"]]
    /\ UNCHANGED programVars

\* the documented response, presented
DocumentedExample ==
    /\ fnIn = Null
    /\ fnIn' = [op |-> "documented"]
    /\ fnOut' = [built |-> [failure |-> "none", report |-> DocResponse.quality_analysis],
                 shown |-> Presentation(DocResponse.quality_analysis)]
    /\ UNCHANGED programVars

\* the skill levels of two global scores
SkillLevels ==
    /\ fnIn = Null
    /\ \E a \in GlobalSamples, b \in GlobalSamples :
            /\ fnIn' = [op |-> "skill", a |-> a, b |-> b]
            /\ fnOut' = [a |-> determine_skill_level(a), b |-> determine_skill_level(b)]
    /\ UNCHANGED programVars

\* the requests of the analyses of two frames with the same landmarks, and
\* the reports built from their bodies
TwoFrames ==
    /\ fnIn = Null
    /\ \E pl \in PoseLandmarkSamples \ {<< >>}, now1 \in Nows, now2 \in Nows,
          authed \in BOOLEAN, label \in ClassifierLabels, c \in Confidences :
            /\ fnIn' = [op |-> "requests", landmarks |-> pl, now |-> <<now1, now2>>,
                        authed |-> authed, pose |-> label, confidence |-> c]
            /\ LET classification == [success |-> TRUE, pose |-> label, confidence |-> c]
                   first(now) == HomeFirstRequest(OnResults(pl, now), authed)
                   second(now) == HomeSecondRequest(OnResults(pl, now), classification)
               IN  fnOut' = [first |-> <<first(now1), first(now2)>>,
                             second |-> <<second(now1), second(now2)>>,
                             built |-> <<analyzeQuality(second(now1).body.landmarks,
                                                        second(now1).body.pose_name, c),
                                         analyzeQuality(second(now2).body.landmarks,
                                                        second(now2).body.pose_name, c)>>]
    /\ UNCHANGED programVars

-----------------------------------------------------------------------------
(* Specifications.                                                         *)

\* localStorage outlives the page: the app starts with any stored tokens, at
\* any URL
Init ==
    /\ access_token \in AccessTokens \cup {NoToken}
    /\ refresh_token \in RefreshTokens \cup {NoToken}
    /\ reqs = [r \in ReqIds |-> IdleReq]
    /\ requested \in Paths
    /\ renderAuth = (access_token # NoToken)
    /\ location = RouteElement(requested, renderAuth).location
    /\ page = RouteElement(requested, renderAuth).page
    /\ home = HomeMounted
    /\ server = Null
    /\ fnIn = Null
    /\ fnOut = Null
    /\ form = FormMounted
    /\ webcam = WebcamMounted

\* the steps of the requests rs made through the api instance
ApiNext(rs) ==
    \/ \E r \in rs, kind \in Kinds : Call(r, kind)
    \/ \E r \in rs, status \in Statuses : HandleResponse(r, status)
    \/ \E r \in rs, answer \in AccessTokens \cup {"fail"} : HandleRefresh(r, answer)
    \/ \E r \in rs : Return(r)
    \/ \E r \in rs : LogoutFinally(r)
    \/ \E r \in rs : HandleLogoutNavigate(r)

\* Spec: MaxReqs concurrent requests through the api instance, on the home page
Next == ApiNext(ReqIds)

InitApi == Init /\ requested = "/"

Spec == InitApi /\ [][Next]_vars

\* SpecRoutes: the router, with one request at a time changing the tokens
NextRoutes ==
    \/ ApiNext({1})
    \/ \E path \in Paths : Visit(path)

SpecRoutes == Init /\ [][NextRoutes]_vars

\* SpecLive: Spec, where the server answers every request and every refresh
\* call in the end
SpecLive ==
    /\ Spec
    /\ \A r \in ReqIds : WF_vars(\E status \in Statuses : HandleResponse(r, status))
    /\ \A r \in ReqIds :
            WF_vars(\E answer \in AccessTokens \cup {"fail"} : HandleRefresh(r, answer))

\* SpecHome: the analyses of the Home page, one at a time
NextHome ==
    \/ \E pl \in PoseLandmarkSamples, now \in Nows :
            HandleMediaPipeResults(OnResults(pl, now))
    \/ Serve
    \/ \E status \in Statuses : HomeResponse(status)
    \/ \E answer \in AccessTokens \cup {"fail"} : HandleRefresh(1, answer)
    \/ AfterAnalyzeComplete
    \/ AfterClassifyPose
    \/ AfterAnalyzePoseQuality
    \/ \E status \in Statuses : CatchAnalysisError(status)
    \/ OpenHome

SpecHome == InitApi /\ [][NextHome]_vars

\* n landmarks that all differ, as the detector gives them
Distinct(n) == [i \in 1..n |-> Landmark(100 * i, 9000 - 50 * i, 100 - i)]

\* results.poseLandmarks of frames whose landmarks all differ: 1, 32, 33 and
\* 34 landmarks, and 33 with the visibility of one undefined
DetectorSamples ==
    { Distinct(n) : n \in {1, 32, 33, 34} }
    \cup { [Distinct(33) EXCEPT ![12] = NoVisibility(@)] }

\* the landmarks of a frame from the detector to the requests of its analysis
FormatFrame ==
    /\ fnIn = Null
    /\ \E pl \in DetectorSamples, now \in Nows, authed \in BOOLEAN :
            /\ fnIn' = [op |-> "format", poseLandmarks |-> pl, authed |-> authed]
            /\ LET results == OnResults(pl, now)
                   classification == [success |-> TRUE, pose |-> "tree", confidence |-> 94]
               IN  fnOut' = [formatted |-> formatLandmarksForBackend(pl),
                             first |-> HomeFirstRequest(results, authed),
                             second |-> HomeSecondRequest(results, classification)]
    /\ UNCHANGED programVars

\* the classes of the list items of two feedback messages
FeedbackClasses ==
    /\ fnIn = Null
    /\ \E a \in FeedbackLevels, b \in FeedbackLevels :
            /\ fnIn' = [op |-> "feedback", a |-> a, b |-> b]
            /\ fnOut' = [a |-> getFeedbackClass(Message(a)),
                         b |-> getFeedbackClass(Message(b))]
    /\ UNCHANGED programVars

\* the skill level of a report as ResultsPanel and Dashboard display it
SkillLabels ==
    /\ fnIn = Null
    /\ \E global \in GlobalSamples :
            LET level == determine_skill_level(global)
            IN  /\ fnIn' = [op |-> "label", global |-> global, level |-> level]
                /\ fnOut' = [panel |-> getSkillLevelLabel(level),
                             dashboard |-> DashboardGetSkillLevelLabel(level)]
    /\ UNCHANGED programVars

\* offsets of a and c from the vertex b: none (coincident points), along an
\* axis, along a diagonal
Offsets == {-1, 0, 1}

\* positions of the vertex b
Vertices == {[x |-> 0, y |-> 0], [x |-> 5000, y |-> 2500]}

\* the angle at b of three points
AngleAt ==
    /\ fnIn = Null
    /\ \E b \in Vertices, ax \in Offsets, ay \in Offsets, cx \in Offsets, cy \in Offsets :
            LET a == [x |-> b.x + ax, y |-> b.y + ay]
                c == [x |-> b.x + cx, y |-> b.y + cy]
            IN  /\ fnIn' = [op |-> "angle", a |-> a, b |-> b, c |-> c]
                /\ fnOut' = [angle |-> calculateAngle(a, b, c)]
    /\ UNCHANGED programVars

\* SpecFn: the functions of the analysis, each behaviour applying one of them
\* to one input
NextFn ==
    \/ AnalyzeFrame
    \/ AnalyzeSample
    \/ DocumentedExample
    \/ SkillLevels
    \/ TwoFrames
    \/ FormatFrame
    \/ FeedbackClasses
    \/ AngleAt
    \/ SkillLabels

InitFn == InitApi /\ access_token = NoToken /\ refresh_token = NoToken

SpecFn == InitFn /\ [][NextFn]_vars

\* SpecAuth: the Login and Register pages, one submission at a time
NextAuth ==
    \/ OpenLogin
    \/ OpenRegister
    \/ \E formData \in LoginForms : LoginSubmit(formData)
    \/ \E formData \in RegisterForms : RegisterSubmit(formData)
    \/ AuthServe
    \/ \E status \in Statuses : AuthResponse(status)
    \/ \E answer \in AccessTokens \cup {"fail"} : HandleRefresh(1, answer)
    \/ AfterLogin
    \/ CatchLoginError
    \/ AfterRegister
    \/ CatchRegisterError

SpecAuth == Init /\ [][NextAuth]_vars

\* SpecWebcam: the webcam of the Home page, with the Camera and the Pose
\* answering
NextWebcam ==
    \/ ToggleWebcam
    \/ \E c \in CameraIds : StartResolved(c)
    \/ \E c \in CameraIds : StartRejected(c)
    \/ SendFrame
    \/ \E poseLandmarks \in BOOLEAN : DeliverResults(poseLandmarks)
    \/ Unmount
    \/ Mount

SpecWebcam == InitFn /\ [][NextWebcam]_vars

-----------------------------------------------------------------------------
(* Claims on the api instance, logout and the routes.                      *)

\* the request r has been through a refresh call that succeeded
Refreshed(r) == reqs[r].newTok # NoToken

AutoRefreshInv ==
    \A r \in ReqIds : Refreshed(r) =>
        /\ reqs[r].refreshes = 1
        /\ reqs[r].sends = 2
        /\ reqs[r].auth = reqs[r].newTok
        /\ reqs[r].st = "settled" =>
              /\ (reqs[r].result = "fulfilled") = (reqs[r].resp = 200)
              /\ reqs[r].result = "rejected" =>
                    reqs[r].err = (IF reqs[r].resp = 401 THEN "401" ELSE "500")

AutoRefreshStep ==
    \A r \in ReqIds :
        \* a first 401 with a refresh token stored starts the refresh call
        /\ ( /\ reqs[r].st = "sent" /\ reqs[r].sends = 1
             /\ reqs'[r].st # "sent" /\ reqs'[r].resp = 401
             /\ refresh_token # NoToken )
           => reqs'[r].st = "refreshing"
        \* its success stores the new token and re-sends the request with it
        /\ (reqs[r].st = "refreshing" /\ reqs'[r].st = "sent")
           => /\ access_token' = reqs'[r].newTok
              /\ access_token' \in AccessTokens
              /\ reqs'[r].auth = access_token'
              /\ reqs'[r].sends = reqs[r].sends + 1

\* C2: a first 401 answered while a refresh token is stored starts a refresh
\* call; when it succeeds the new access token is written to localStorage and
\* the request is sent a second and last time with that token, and the caller
\* gets the outcome of the second send.
C2_AutoRefresh == []AutoRefreshInv /\ [][AutoRefreshStep]_vars

\* C2 witness: a request settled with the success of its re-send after a refresh
C2_Witness ==
    \E r \in ReqIds :
        /\ reqs[r].st = "settled" /\ Refreshed(r)
        /\ reqs[r].result = "fulfilled" /\ reqs[r].sends = 2

LogoutInv ==
    \A r \in ReqIds : reqs[r].kind = "logout" =>
        /\ reqs[r].st = "settled" => ENABLED LogoutFinally(r)
        /\ reqs[r].st = "returned" => reqs[r].caller = "fulfilled"

LogoutStep ==
    \A r \in ReqIds :
        (reqs[r].kind = "logout" /\ reqs[r].st = "settled" /\ reqs'[r].st # "settled")
        => /\ reqs'[r].st = "returned"
           /\ access_token' = NoToken
           /\ refresh_token' = NoToken
           /\ ~isAuthenticated'

\* C4: logout() removes access_token and refresh_token when its server call has
\* succeeded, failed or gone through a token refresh, its promise is never
\* rejected, and isAuthenticated() is false when it completes.
C4_LogoutCleans == []LogoutInv /\ [][LogoutStep]_vars

\* C4 witness: a logout completed after its request went through a refresh that
\* stored a new access token
C4_Witness ==
    \E r \in ReqIds :
        /\ reqs[r].kind = "logout" /\ reqs[r].st = "returned"
        /\ Refreshed(r) /\ access_token = NoToken

ProtectedPages == {"Dashboard", "DashboardDebug"}

RoutesInv ==
    /\ page \in ProtectedPages => renderAuth
    /\ requested = "/dashboard" =>
          IF renderAuth THEN page = "Dashboard" /\ location = "/dashboard"
          ELSE page = "Login" /\ location = "/login"
    /\ requested = "/dashboard-debug" =>
          IF renderAuth THEN page = "DashboardDebug" /\ location = "/dashboard-debug"
          ELSE page = "Login" /\ location = "/login"
    /\ requested = "/" => page = "Home" /\ location = "/"
    /\ requested = "/login" => page = "Login" /\ location = "/login"
    /\ requested = "/register" => page = "Register" /\ location = "/register"
    /\ requested \notin {"/", "/login", "/register", "/dashboard", "/dashboard-debug"}
          => page = "Home" /\ location = "/"

RoutesStep ==
    ( /\ <<requested, location, page, renderAuth>>' # <<requested, location, page, renderAuth>>
      /\ page' \in ProtectedPages )
    => access_token' # NoToken /\ access_token' = access_token

\* C3: Dashboard and DashboardDebug are rendered only while an access_token is
\* stored at render time; without one /dashboard and /dashboard-debug end on
\* /login; /, /login and /register are served as such and any other path ends
\* on /.
C3_ProtectedRoutes == []RoutesInv /\ [][RoutesStep]_vars

\* C3 witness: after a logout that was sent with a token, /dashboard is visited
\* and ends on /login
C3_Witness ==
    /\ reqs[1].kind = "logout" /\ reqs[1].st = "returned" /\ reqs[1].auth # NoToken
    /\ requested = "/dashboard" /\ access_token = NoToken
    /\ page = "Login" /\ location = "/login"

-----------------------------------------------------------------------------
(* The quality report: aggregation, priority, skill level, ranges.         *)

\* a full report has been built (or documented) and presented
FullBuilt ==
    /\ fnIn # Null
    /\ fnIn.op \in {"frame", "sample", "documented"}
    /\ fnOut.built.failure = "none"
    /\ ~QualityUnavailable(fnOut.built.report)

Abs(v) == IF v < 0 THEN 0 - v ELSE v

\* C5: in every full report, global_score is the arithmetic mean of the
\* indicator scores rounded to one decimal place: it has one decimal and lies
\* within 0.05 of the mean.
C5_AggregationLaw ==
    FullBuilt =>
        LET report == fnOut.built.report
            n == Len(report.indicators)
        IN  /\ report.global_score % 10 = 0
            /\ 2 * Abs(n * report.global_score - SumScores(report.indicators, 1)) <= 10 * n

\* the documented response is presented: four indicators and a global score
C5_Witness ==
    /\ FullBuilt
    /\ fnIn.op = "documented"
    /\ Len(fnOut.built.report.indicators) = 4

\* C6: the priority indicator of every full report names the lowest score of
\* its indicators and carries that score; among several lowest, it is the
\* one declared first.
C6_PriorityFirstLowest ==
    FullBuilt =>
        LET ind == fnOut.built.report.indicators
            pr == fnOut.built.report.priority_indicator
        IN  \E k \in 1..Len(ind) :
                /\ ind[k].name = pr.name
                /\ ind[k].score = pr.score
                /\ \A j \in 1..Len(ind) : ind[j].score >= pr.score
                /\ \A j \in 1..(k - 1) : ind[j].score > pr.score

\* a report whose lowest score is shared by two indicators, neither of them
\* the first of the set, and whose priority is the earlier of the two
C6_Witness ==
    /\ FullBuilt
    /\ fnIn.op = "frame"
    /\ LET ind == fnOut.built.report.indicators
           pr == fnOut.built.report.priority_indicator
       IN  \E j, k \in 2..Len(ind) :
                /\ j < k
                /\ ind[j].score = ind[k].score
                /\ ind[j].score < ind[1].score
                /\ \A m \in 1..Len(ind) : ind[m].score >= ind[j].score
                /\ pr.name = ind[j].name

\* the order of the skill levels
Rank(level) ==
    CASE level = "beginner" -> 1
      [] level = "intermediate" -> 2
      [] level = "advanced" -> 3
      [] level = "expert" -> 4

\* C7: the skill level depends on the global score alone and never goes down
\* when the global score goes up.
C7_MonotonicSkill ==
    /\ (fnIn # Null /\ fnIn.op = "skill") =>
            /\ fnIn.a < fnIn.b => Rank(fnOut.a) <= Rank(fnOut.b)
            /\ fnIn.a = fnIn.b => fnOut.a = fnOut.b
    /\ FullBuilt =>
            fnOut.built.report.skill_level =
                determine_skill_level(fnOut.built.report.global_score)

\* two global scores on either side of a band edge, with different levels
C7_Witness ==
    /\ fnIn # Null
    /\ fnIn.op = "skill"
    /\ fnIn.a < fnIn.b
    /\ fnOut.a = "advanced"
    /\ fnOut.b = "expert"

\* C8: every indicator score and the global score of a full report lie in
\* [0,100], and so do the indicator scores drawn by RadarChart and the score
\* number shown by ResultsPanel.
C8_Range ==
    FullBuilt =>
        LET report == fnOut.built.report
        IN  /\ \A k \in 1..Len(report.indicators) :
                    report.indicators[k].score \in 0..FullScore
            /\ report.global_score \in 0..FullScore
            /\ \A k \in 1..Len(fnOut.shown.radar) :
                    fnOut.shown.radar[k].score \in 0..FullScore
            /\ fnOut.shown.scoreNumber \in 0..FullScore

\* a report with an indicator clamped to 0 and an indicator under 100 that
\* RadarChart draws at 100
C8_Witness ==
    /\ FullBuilt
    /\ fnIn.op = "frame"
    /\ \E k \in 1..Len(fnIn.devs) :
            /\ FullScore - (DeviationScale * fnIn.devs[k]) \div 100 < 0
            /\ fnOut.built.report.indicators[k].score = 0
    /\ \E k \in 1..Len(fnOut.shown.radar) :
            /\ fnOut.built.report.indicators[k].score < FullScore
            /\ fnOut.shown.radar[k].score = FullScore

-----------------------------------------------------------------------------
(* The analysis of a frame by Home: gating and hard failures.              *)

\* C1: whenever an analysis is presented, a classification confidence under
\* 0.70 goes with the "unavailable" quality analysis, and a confidence of
\* 0.70 or more with a full report.
C1_Gating ==
    (home.analysisResults # Null /\ home.analysisResults # Undefined
        /\ home.analysisResults.success) =>
        IF home.analysisResults.classification.confidence < GateThreshold
        THEN Panel(home.analysisResults) = "unavailable"
        ELSE Panel(home.analysisResults) = "full"

\* the same, for the analyses of a signed-in user (one complete-analysis
\* request)
C1_GatingComplete ==
    (home.analysisResults # Null /\ home.analysisResults # Undefined
        /\ home.analysisResults.success
        /\ "success" \notin DOMAIN home.analysisResults.classification) =>
        IF home.analysisResults.classification.confidence < GateThreshold
        THEN Panel(home.analysisResults) = "unavailable"
        ELSE Panel(home.analysisResults) = "full"

\* an analysis of the classify-then-analyze flow is presented
C1_Witness ==
    /\ home.analysisResults # Null
    /\ home.analysisResults # Undefined
    /\ "success" \in DOMAIN home.analysisResults.classification
    /\ home.analysisResults.classification.confidence < GateThreshold

\* the shape the Quality Report Builder refuses: not 33 landmarks, or a
\* landmark without one of its four fields
WrongShape(landmarks) ==
    \/ Len(landmarks) # 33
    \/ \E i \in 1..Len(landmarks) :
            {"x", "y", "z", "visibility"} \ DOMAIN landmarks[i] # {}

\* the server has processed the request in flight of an analysis
Processed == server # Null /\ reqs[1].st # "idle" /\ reqs[1].kind \in HomeKinds

HardFailureInv ==
    /\ (reqs[1].st # "idle" /\ reqs[1].kind \in HomeKinds) =>
            /\ reqs[1].body.landmarks = home.results.landmarks
            /\ reqs[1].kind = "analyze" =>
                    reqs[1].body.pose_name = home.classification.pose
    /\ Processed =>
            (server.failure # "none" <=>
                \/ WrongShape(home.results.landmarks)
                \/ reqs[1].kind = "analyze" /\ home.classification.pose \notin Poses)

HardFailureStep ==
    (Processed /\ server.failure # "none" /\ home'.pc = "idle") =>
        /\ home'.analysisResults = home.analysisResults
        /\ home'.error = "analysis"

\* C10: the server fails an analysis exactly when the frame handed to Home
\* has not 33 complete landmarks or the classified posture is not one of the
\* five, the requests carrying the frame and the posture unchanged; low
\* confidence, low visibility and coincident points give no failure; an
\* analysis that failed shows an error and leaves the results as they were.
C10_HardFailure == []HardFailureInv /\ [][HardFailureStep]_vars

\* after an unavailable report, an analysis classified as a posture without
\* analyzer has failed: the error is shown next to the report of before
C10_Witness ==
    /\ home.pc = "idle"
    /\ home.error = "analysis"
    /\ home.classification # Null
    /\ home.classification.success
    /\ home.classification.pose \notin Poses
    /\ home.analysisResults # Null
    /\ home.analysisResults # Undefined
    /\ Panel(home.analysisResults) = "unavailable"

-----------------------------------------------------------------------------
(* The JWT header, login and registration.                                 *)

\* a step that sends request r: a first send, or the re-send after a refresh
JwtStep ==
    \A r \in ReqIds :
        reqs'[r].sends = reqs[r].sends + 1 =>
            /\ reqs'[r].st = "sent"
            /\ IF access_token' # NoToken
               THEN reqs'[r].auth = access_token'
               ELSE reqs'[r].auth = NoToken

\* C11: every request sent through the api instance, the re-send after a
\* refresh included, carries Authorization: Bearer <the access_token stored
\* when it is sent>, and no Authorization header when none is stored.
C11_JwtAttachment == [][JwtStep]_vars

\* C11 witness: a request re-sent after a refresh with the token the refresh
\* stored, while another request sent before it carries no header
C11_Witness ==
    \E r, q \in ReqIds :
        /\ reqs[r].st = "sent" /\ reqs[r].sends = 2
        /\ reqs[r].auth = access_token /\ access_token # NoToken
        /\ reqs[q].st = "sent" /\ reqs[q].sends = 1 /\ reqs[q].auth = NoToken

\* the page stays Login while a login is in progress
LoginInv == form.pc = "login" => page = "Login" /\ location = "/login"

\* the step that ends a login: handleSubmit has run to its end
LoginEnds == form.pc = "login" /\ form'.pc = "idle"

LoginStep ==
    LoginEnds =>
        IF reqs[1].result = "fulfilled" /\ server.data.success
        THEN /\ access_token' = server.data.tokens.access_token
             /\ refresh_token' = server.data.tokens.refresh_token
             /\ renderAuth'
             /\ requested' = "/dashboard"
             /\ location' = "/dashboard"
             /\ page' = "Dashboard"
        ELSE /\ UNCHANGED <<requested, location, page>>
             /\ form'.error # ""

\* C12: when the login response reports success its tokens are in
\* localStorage when Login navigates to /dashboard, and the Dashboard is
\* rendered; when the login request is rejected or reports no success the page
\* stays the Login page and shows an error message.
C12_Login == []LoginInv /\ [][LoginStep]_vars

\* C12 without the rejections that come from a failed refresh call
C12_LoginNoRefreshFailure ==
    [][reqs[1].err # "refresh" => LoginStep]_vars

\* C12 witness: the Dashboard rendered at the end of a login
C12_Witness ==
    /\ page = "Dashboard" /\ requested = "/dashboard"
    /\ form.pc = "idle" /\ form.formData \in LoginForms
    /\ access_token # NoToken /\ refresh_token # NoToken

\* the password equals its confirmation, has 8 characters or more, an upper
\* case letter, a lower case letter and a digit
StrongPassword(formData) ==
    /\ formData.password = formData.confirmPassword
    /\ Len(formData.password) >= 8
    /\ \E i \in 1..Len(formData.password) : formData.password[i] \in UpperCase
    /\ \E i \in 1..Len(formData.password) : formData.password[i] \in LowerCase
    /\ \E i \in 1..Len(formData.password) : formData.password[i] \in Digit

RegisterStep ==
    \* a registration request is sent only for a strong password
    /\ (reqs[1].st = "idle" /\ reqs'[1].st = "sent" /\ reqs'[1].kind = "register")
       => /\ form'.formData \in RegisterForms
          /\ StrongPassword(form'.formData)
          /\ reqs'[1].body.password = form'.formData.password
    \* a submission with another password sends nothing and sets an error
    /\ ( /\ page = "Register" /\ form.pc = "idle"
         /\ form'.formData \in RegisterForms
         /\ ~StrongPassword(form'.formData) )
       => /\ reqs' = reqs
          /\ form'.pc = "idle"
          /\ form'.error # ""
    \* a successful registration ends on /login and stores nothing
    /\ ( /\ form.pc = "register" /\ form'.pc = "idle"
         /\ reqs[1].result = "fulfilled" /\ server.data.success )
       => /\ requested' = "/login"
          /\ location' = "/login"
          /\ page' = "Login"
          /\ UNCHANGED <<access_token, refresh_token>>

\* C13: Register sends a registration request only if the password equals its
\* confirmation, has at least 8 characters and contains an upper case letter,
\* a lower case letter and a digit; otherwise it sends no request and sets an
\* error message; a successful registration navigates to /login and stores no
\* token.
C13_RegistrationGate == [][RegisterStep]_vars

\* C13 witness: a registration request in flight for a password of 9
\* characters with a character outside the three classes
C13_Witness ==
    /\ reqs[1].kind = "register" /\ reqs[1].st = "sent"
    /\ Len(reqs[1].body.password) = 9
    /\ form.pc = "register"

-----------------------------------------------------------------------------
(* The requests of an analysis of Home.                                    *)

\* the request of the analysis in progress is the one of its stage, and
\* carries landmarks
AnalysisFlowInv ==
    /\ home.pc = "complete" =>
            /\ renderAuth
            /\ reqs[1].kind = "complete" /\ reqs[1].url = "/complete-analysis"
    /\ home.pc = "classify" =>
            /\ ~renderAuth
            /\ reqs[1].kind = "classify" /\ reqs[1].url = "/classify"
    /\ home.pc = "analyze" =>
            /\ ~renderAuth
            /\ reqs[1].kind = "analyze" /\ reqs[1].url = "/analyze"
            /\ reqs[1].body.pose_name = home.classification.pose
            /\ home.classification.success
    /\ home.pc = "idle" => reqs[1].st = "idle"
    /\ home.pc # "idle" =>
            /\ Len(home.results.landmarks) > 0
            /\ reqs[1].body.landmarks = home.results.landmarks

AnalysisFlowStep ==
    \* an ApiService method is called: by a result on an idle page, or after
    \* a successful classification
    /\ (reqs[1].st \in {"idle", "settled"} /\ reqs'[1].st = "sent") =>
            \/ /\ home.pc = "idle"
               /\ reqs'[1].kind = (IF renderAuth THEN "complete" ELSE "classify")
            \/ /\ home.pc = "classify"
               /\ reqs[1].result = "fulfilled"
               /\ server.data.success
               /\ reqs'[1].kind = "analyze"
               /\ reqs'[1].body.pose_name = server.data.pose
    \* the stages of an analysis
    /\ home.pc = "complete" => home'.pc \in {"complete", "idle"}
    /\ home.pc = "classify" => home'.pc \in {"classify", "analyze", "idle"}
    /\ home.pc = "analyze" => home'.pc \in {"analyze", "idle"}

\* C14: Home ignores results without landmarks; when isAuthenticated holds in
\* Home a result with landmarks starts one complete-analysis call and no
\* classify or analyze call; when it does not the result starts a classify
\* call, followed only after a successful classification by one analyze call
\* whose pose_name is the classified pose, and never a complete-analysis call.
C14_AnalysisFlow == []AnalysisFlowInv /\ [][AnalysisFlowStep]_vars

\* C14 witness: the analyze request of an unauthenticated analysis in flight
\* for the classified pose
C14_Witness ==
    /\ home.pc = "analyze" /\ ~renderAuth
    /\ reqs[1].st = "sent" /\ reqs[1].kind = "analyze"
    /\ reqs[1].body.pose_name = "warrior2"
    /\ home.classification.pose = "warrior2"

-----------------------------------------------------------------------------
(* Landmarks, feedback classes, the endpoint and the angle.                *)

\* C15: formatLandmarksForBackend returns as many landmarks as the detector
\* gave, the i-th with the x, y, z and visibility of the i-th given, and the
\* requests of the analysis carry exactly that list.
C15_LandmarksPreserved ==
    (fnIn # Null /\ fnIn.op = "format") =>
        LET given == fnIn.poseLandmarks
            formatted == fnOut.formatted
        IN  /\ Len(formatted) = Len(given)
            /\ \A i \in 1..Len(given) : \A f \in {"x", "y", "z", "visibility"} :
                    /\ (f \in DOMAIN formatted[i]) = (f \in DOMAIN given[i])
                    /\ f \in DOMAIN given[i] => formatted[i][f] = given[i][f]
            /\ fnOut.first.body.landmarks = formatted
            /\ fnOut.second.body.landmarks = formatted

\* C15 witness: 34 different landmarks formatted and sent by an authenticated
\* analysis
C15_Witness ==
    /\ fnIn # Null /\ fnIn.op = "format"
    /\ Len(fnIn.poseLandmarks) = 34 /\ fnIn.authed
    /\ Len(fnOut.first.body.landmarks) = 34
    /\ fnOut.first.body.landmarks[34].x = 3400
    /\ fnOut.first.body.landmarks[1].x = 100

\* C16: a feedback message gets one class from its marker, and the five
\* levels excellent, good, warning, tip and encouragement get five different
\* classes from getFeedbackClass.
C16_FeedbackClasses ==
    (fnIn # Null /\ fnIn.op = "feedback") =>
        /\ fnOut.a \in {"feedback-excellent", "feedback-good", "feedback-warning",
                        "feedback-tip", "feedback-neutral"}
        /\ fnIn.a = fnIn.b => fnOut.a = fnOut.b
        /\ fnIn.a # fnIn.b => fnOut.a # fnOut.b

\* C16 but for tip and encouragement, taken as one level
C16_FeedbackClassesButTips ==
    (fnIn # Null /\ fnIn.op = "feedback") =>
        /\ fnIn.a = fnIn.b => fnOut.a = fnOut.b
        /\ (fnIn.a # fnIn.b /\ {fnIn.a, fnIn.b} # {"tip", "encouragement"})
           => fnOut.a # fnOut.b

\* C16 witness: the classes of a warning and of an encouragement
C16_Witness ==
    /\ fnIn # Null /\ fnIn.op = "feedback"
    /\ fnIn.a = "warning" /\ fnOut.a = "feedback-warning"
    /\ fnIn.b = "encouragement" /\ fnOut.b = "feedback-tip"

\* C17: the complete analysis of an authenticated user (analyzeComplete) is a
\* POST to the documented main endpoint /api/analyze-complete.
C17_DocumentedEndpoint ==
    (fnIn # Null /\ fnIn.op = "format" /\ fnIn.authed) =>
        /\ fnOut.first.kind = "complete"
        /\ Endpoint(fnOut.first) = DocumentedEndpoint

\* C17 witness: the request of analyzeComplete for a frame of 33 landmarks
C17_Witness ==
    /\ fnIn # Null /\ fnIn.op = "format" /\ fnIn.authed
    /\ fnOut.first.kind = "complete"
    /\ Endpoint(fnOut.first).method = "POST"
    /\ Len(fnOut.first.body.landmarks) = 33

\* C18: the angle at b returned by calculateAngle(a, b, c) is within 0 and
\* 180 degrees for every three points, coincident points included.
C18_AngleRange ==
    (fnIn # Null /\ fnIn.op = "angle") =>
        /\ fnOut.angle >= 0
        /\ fnOut.angle <= 180

\* C18 witness: a coincides with b and c lies on the negative x axis: the
\* angle is 180; with c beside it the difference of the directions is 315
C18_Witness ==
    /\ fnIn # Null /\ fnIn.op = "angle"
    /\ fnIn.a = fnIn.b
    /\ fnIn.c.x < fnIn.b.x /\ fnIn.c.y = fnIn.b.y
    /\ fnOut.angle = 180

-----------------------------------------------------------------------------
(* The handling of a 401.                                                  *)

BoundedInv ==
    \A r \in ReqIds :
        /\ reqs[r].refreshes <= 1
        /\ reqs[r].sends <= 2
        /\ reqs[r].refreshes = 1 => reqs[r].retry
        /\ reqs[r].sends = 2 => reqs[r].refreshes = 1

BoundedStep ==
    \A r \in ReqIds :
        \* an answer to the re-sent request, 401 included, settles it
        /\ (reqs[r].st = "sent" /\ reqs[r].retry /\ reqs'[r].st # "sent")
           => reqs'[r].st = "settled" /\ reqs'[r].refreshes = reqs[r].refreshes
        \* the refresh call is not a request of the instance: its answer
        \* re-sends the request or settles it
        /\ (reqs[r].st = "refreshing" /\ reqs'[r].st # "refreshing")
           => /\ reqs'[r].st \in {"sent", "settled"}
              /\ reqs'[r].refreshes = reqs[r].refreshes

\* C19: for one request the response interceptor makes at most one refresh
\* call and one re-send, and a request that is answered, whatever the
\* statuses, is settled in the end.
C19_Bounded401 ==
    /\ []BoundedInv
    /\ [][BoundedStep]_vars
    /\ \A r \in ReqIds : (reqs[r].st \in {"sent", "refreshing"}) ~> (reqs[r].st = "settled")

\* C19 witness: a request settled by the 401 that answered its re-send
C19_Witness ==
    \E r \in ReqIds :
        /\ reqs[r].st = "settled" /\ reqs[r].sends = 2 /\ reqs[r].refreshes = 1
        /\ reqs[r].resp = 401 /\ reqs[r].result = "rejected"

RefreshFailureStep ==
    \A r \in ReqIds :
        (reqs[r].st = "refreshing" /\ reqs'[r].st = "settled")
        => /\ access_token' = NoToken
           /\ refresh_token' = NoToken
           /\ ~isAuthenticated'
           /\ requested' = "/login"
           /\ location' = "/login"
           /\ reqs'[r].result = "rejected"
           /\ reqs'[r].err = "refresh"
           /\ reqs'[r].sends = reqs[r].sends

\* C20: when the refresh call made for a 401 fails, access_token and
\* refresh_token are removed from localStorage, the browser is sent to /login
\* and the promise of the request is rejected with the error of the refresh
\* call.
C20_RefreshFailure == [][RefreshFailureStep]_vars

\* C20 witness: a request rejected with the refresh error, tokens removed,
\* while the tokens were stored when it was sent
C20_Witness ==
    \E r \in ReqIds :
        /\ reqs[r].st = "settled" /\ reqs[r].err = "refresh"
        /\ reqs[r].auth # NoToken
        /\ access_token = NoToken /\ refresh_token = NoToken
        /\ location = "/login"

-----------------------------------------------------------------------------
(* The labels of the skill levels.                                         *)
-----------------------------------------------------------------------------

\* C23: every skill_level a report can carry (beginner, intermediate,
\* advanced, expert) is displayed by getSkillLevelLabel, in ResultsPanel and
\* in Dashboard, as a label and not as the raw identifier.
C23_SkillLabels ==
    (fnIn # Null /\ fnIn.op = "label") =>
        /\ fnIn.level \in Levels
        /\ fnOut.panel \notin Levels
        /\ fnOut.dashboard \notin Levels

\* C23 but for expert: the three other levels get a label, the same in
\* ResultsPanel and in Dashboard
C23_SkillLabelsButExpert ==
    (fnIn # Null /\ fnIn.op = "label") =>
        /\ fnIn.level \in Levels
        /\ fnOut.panel = fnOut.dashboard
        /\ fnIn.level # "expert" => fnOut.panel \notin Levels

\* C23 witness: the label of the level of a global score of 85.0 or more
C23_Witness ==
    /\ fnIn # Null
    /\ fnIn.op = "label"
    /\ fnIn.global >= ExpertFrom
    /\ fnIn.level = "expert"
    /\ fnOut.panel = "expert"
    /\ fnOut.dashboard = "expert"

-----------------------------------------------------------------------------
(* The webcam: throttle and shutdown.                                      *)
-----------------------------------------------------------------------------

\* a step that calls the parent's onResults while the webcam is active
ForwardStep ==
    /\ webcam.isActive
    /\ webcam'.forwards = webcam.forwards + 1

\* C21: while the webcam is active, WebcamCapture forwards landmark results
\* to its parent for at most one out of every 30 consecutive result frames:
\* between two calls of onResults at least 29 result frames are not forwarded.
C21_Throttle ==
    [][ForwardStep => webcam.since >= ThrottleFrames - 1]_vars

\* C21 seen from the closure: a frame is forwarded only with poseLandmarks
\* and a frameCount of the registered handleMediaPipeResults that 30 divides
C21_ForwardsOfClosure ==
    [][webcam'.forwards = webcam.forwards + 1
        => webcam.onResultsCallback.frameCount % ThrottleFrames = 0]_vars

\* C21 witness: the first two result frames of an activation both forwarded
C21_Witness ==
    /\ webcam.isActive
    /\ webcam.forwards = 2
    /\ webcam.frameCount = 2
    /\ webcam.since = 0

\* a step in which isActive becomes false or the component unmounts
InactiveStep ==
    \/ webcam.isActive /\ ~webcam'.isActive
    \/ webcam.mounted /\ ~webcam'.mounted

\* the component is inactive and nothing is pending
Settled ==
    /\ ~webcam.isActive
    /\ webcam.awaiting = {}
    /\ ~webcam.inFlight

\* a Camera holds a stream
Running == \E c \in CameraIds : webcam.cameras[c].state = "running"

\* what stopWebcam leaves: no Camera in the service, counter and status reset
Reset ==
    /\ webcam.camera = NoCamera
    /\ webcam.frameCount = 0
    /\ webcam.detectionStatus = ""

\* the shutdown as the step leaves it: stopCamera called on the Camera of
\* the service, no Camera held, counter and status reset
ShutdownStep ==
    InactiveStep =>
        /\ webcam'.camera = NoCamera
        /\ webcam.camera # NoCamera =>
                webcam'.cameras[webcam.camera].state \notin {"starting", "running"}
        /\ webcam'.frameCount = 0
        /\ webcam'.detectionStatus = ""

\* C22: whenever isActive becomes false or WebcamCapture unmounts, stopCamera
\* is called, after which the service holds no Camera and the frame counter
\* and the detection status are reset; in every interleaving of the
\* asynchronous start with a stop no Camera is left running once the
\* component is inactive and all pending steps have settled.
C22_Shutdown ==
    /\ [][ShutdownStep]_vars
    /\ [](Settled => Reset /\ ~Running)

\* C22, the step of the shutdown alone, and the service holding no Camera
\* while the component is inactive
C22_ShutdownStep ==
    /\ [][ShutdownStep]_vars
    /\ [](~webcam.isActive => webcam.camera = NoCamera)

\* C22 witness: the webcam stopped while start() was pending, start() then
\* resolved, and a Camera runs that the service no longer holds
C22_Witness ==
    /\ webcam.mounted
    /\ Settled
    /\ webcam.camera = NoCamera
    /\ webcam.cameras[1].state = "running"
    /\ webcam.detectionStatus = "active"

=============================================================================
